---- MODULE Spec2Model ----
(***************************************************************************)
(* LittleLemonAPI: carts, orders, role-scoped order access and group       *)
(* rosters, modelled from serializers.py, permissions.py and views.py.     *)
(*                                                                         *)
(* The database tables are the state.  Django runs in autocommit mode and  *)
(* the handlers open no transaction, so every ORM statement is one atomic  *)
(* step and the statements of concurrent requests interleave.  A handler   *)
(* that issues several statements is a chain of steps of one request slot  *)
(* (proc[p]); a handler that issues one writing statement is one step.     *)
(* Read-only handlers (GET) are state functions.                           *)
(*                                                                         *)
(* Money is counted in cents (DecimalField with two places).               *)
(***************************************************************************)
EXTENDS Integers, FiniteSets, Sequences, TLC

\* ------------------------------------------------------------ bounds
NumProcs    == 2   \* request slots that can be in flight at once
MaxCartRows == 2   \* cart primary keys handed out
MaxOrders   == 1   \* order primary keys handed out by order creation
MaxStored   == 2   \* orders on file when the single-order handlers are exercised

Procs      == 1..NumProcs
Users      == {"u1", "u2"}
NoUser     == "nobody"          \* a username / pk with no User row
NULL       == "null"
MenuItems  == {"pizza", "coke"}
GroupNames == {"manager", "customer", "delivery_crew"}
RosterGroups == {"manager", "delivery_crew"}   \* ManagerView, DeliveryCrewView
Quantities == {0, 1, 2}         \* quantities a request sends
Prices     == {1, 2}            \* menu prices a manager sets
StatusValues == {0, 1}          \* Order.status values a request sends
CrewValues == {NULL, "u2"}      \* Order.delivery_crew values a request sends
\* Request bodies: a PUT sends both writable fields, a PATCH any of them.
PutBodies   == {[status |-> st, delivery_crew |-> cr] : st \in StatusValues, cr \in CrewValues}
PatchBodies == PutBodies \cup {[status |-> st] : st \in StatusValues}
                         \cup {[delivery_crew |-> cr] : cr \in CrewValues}

VARIABLES
    groupRows,     \* auth_group: names of the Group rows that exist
    member,        \* auth_user_groups: set of <<user, group name>>
    menuPrice,     \* MenuItem.price, per menu item
    cart,          \* Cart rows
    nextCartId,    \* next Cart primary key
    orders,        \* Order rows
    nextOrderId,   \* next Order primary key
    orderItems,    \* OrderItem rows
    proc,          \* per request slot: position and locals of the handler in flight
    resp,          \* the response sent last
    addedAt,       \* history: cart pk -> MenuItem.price at the moment the row was inserted
    consumed       \* history: cart pks deleted by an order creation's carts.delete()

vars == <<groupRows, member, menuPrice, cart, nextCartId, orders,
          nextOrderId, orderItems, proc, resp, addedAt, consumed>>

authVars  == <<groupRows, member>>
histVars  == <<addedAt, consumed>>
cartVars  == <<menuPrice, cart, nextCartId, nextOrderId, proc, addedAt, consumed>>

\* ------------------------------------------------------------ helpers
IdleProc ==
    [pc |-> "idle", user |-> NULL, menuitem |-> NULL, quantity |-> 0,
     unit_price |-> 0, carts |-> {}, total |-> 0, order |-> 0,
     snap |-> [cart |-> {}, orders |-> {}, items |-> {}]]

NoResp == [op |-> "none", user |-> NULL, arg |-> NULL, code |-> 0, detail |-> ""]

Response(op, user, arg, code, detail) ==
    [op |-> op, user |-> user, arg |-> arg, code |-> code, detail |-> detail]

InFlight(pcs) == {p \in Procs : proc[p].pc \in pcs}

\* ------------------------------------------------------------ permissions.py
IsManager(u) == <<u, "manager">> \in member

IsCustomer(u) == <<u, "customer">> \in member

IsDeliveryCrew(u) == <<u, "delivery_crew">> \in member

\* A failed permission check: 403 (the message text differs per permission class).
Forbidden(op, u, arg) == Response(op, u, arg, 403, "forbidden")

\* ------------------------------------------------------------ serializers.py: CartSerializer
\* Cart.objects.filter(user=u)
UserCart(u) == {c \in cart : c.user = u}

\* UniqueTogetherValidator(queryset=Cart.objects.all(), fields=["user", "menuitem"])
InCart(u, m) == \E c \in cart : c.user = u /\ c.menuitem = m

\* CartSerializer.validate
QuantityValid(q) == q > 0

\* A faulty CartSerializer.create that adds where it should multiply.
CartPrice_Added(unit_price, quantity) == unit_price + quantity

\* CartSerializer.create: price = unit_price * quantity
CartPrice(unit_price, quantity) == unit_price * quantity

\* CartView.post, up to the field validation that fetches the MenuItem row
\* (get_permissions, then PrimaryKeyRelatedField's lookup).
CartPost(p, u, m, q) ==
    /\ proc[p].pc = "idle"
    /\ nextCartId + Cardinality(InFlight({"ca_validate", "ca_insert"})) <= MaxCartRows
    /\ IF ~IsCustomer(u)
       THEN /\ resp' = Forbidden("cart_post", u, NULL)
            /\ UNCHANGED proc
       ELSE /\ proc' = [proc EXCEPT ![p] =
                   [IdleProc EXCEPT !.pc = "ca_validate", !.user = u, !.menuitem = m,
                                    !.quantity = q, !.unit_price = menuPrice[m]]]
            /\ UNCHANGED resp
    /\ UNCHANGED <<authVars, menuPrice, cart, nextCartId, orders,
                   nextOrderId, orderItems, histVars>>

\* serializer.is_valid: the unique-together validator's query, then validate().
CartValidate(p) ==
    /\ proc[p].pc = "ca_validate"
    /\ IF InCart(proc[p].user, proc[p].menuitem)
       THEN /\ resp' = Response("cart_post", proc[p].user, NULL, 400,
                                "Item is already in the cart.")
            /\ proc' = [proc EXCEPT ![p] = IdleProc]
       ELSE IF ~QuantityValid(proc[p].quantity)
       THEN /\ resp' = Response("cart_post", proc[p].user, NULL, 400,
                                "Quantity cannot be 0 or less than 0.")
            /\ proc' = [proc EXCEPT ![p] = IdleProc]
       ELSE /\ proc' = [proc EXCEPT ![p].pc = "ca_insert"]
            /\ UNCHANGED resp
    /\ UNCHANGED <<authVars, menuPrice, cart, nextCartId, orders,
                   nextOrderId, orderItems, histVars>>

\* The row CartSerializer.create builds.
CartRow(id, u, m, q, unit_price) ==
    [id |-> id, user |-> u, menuitem |-> m, quantity |-> q,
     unit_price |-> unit_price, price |-> CartPrice(unit_price, q)]

\* CartSerializer.create: the INSERT.  Whether the Cart table carries a unique
\* constraint on (user, menuitem) is decided by the model class and its
\* migrations: with one, the INSERT of a second row for the pair raises
\* IntegrityError, which no code catches (a server error); without one, the
\* second row is stored.  Both outcomes are possible here.
CartInsert(p) ==
    /\ proc[p].pc = "ca_insert"
    /\ \E constrained \in BOOLEAN :
          IF InCart(proc[p].user, proc[p].menuitem) /\ constrained
          THEN /\ resp' = Response("cart_post", proc[p].user, NULL, 500, "IntegrityError")
               /\ UNCHANGED <<cart, nextCartId, addedAt>>
          ELSE /\ cart' = cart \cup
                      {CartRow(nextCartId, proc[p].user, proc[p].menuitem,
                               proc[p].quantity, proc[p].unit_price)}
               /\ nextCartId' = nextCartId + 1
               /\ addedAt' = [addedAt EXCEPT ![nextCartId] = menuPrice[proc[p].menuitem]]
               /\ resp' = Response("cart_post", proc[p].user, NULL, 201, "")
    /\ proc' = [proc EXCEPT ![p] = IdleProc]
    /\ UNCHANGED <<authVars, menuPrice, orders, nextOrderId, orderItems, consumed>>

\* ------------------------------------------------------------ views.py: CartView.delete
\* get_permissions, then `if not self.get_queryset().exists()`.
CartDelete(p, u) ==
    /\ proc[p].pc = "idle"
    /\ IF ~IsCustomer(u)
       THEN /\ resp' = Forbidden("cart_delete", u, NULL)
            /\ UNCHANGED proc
       ELSE IF UserCart(u) = {}
       THEN /\ resp' = Response("cart_delete", u, NULL, 400, "Cart is already empty.")
            /\ UNCHANGED proc
       ELSE /\ proc' = [proc EXCEPT ![p] = [IdleProc EXCEPT !.pc = "cd_delete", !.user = u]]
            /\ UNCHANGED resp
    /\ UNCHANGED <<authVars, menuPrice, cart, nextCartId, orders,
                   nextOrderId, orderItems, histVars>>

\* self.get_queryset().delete()
CartDeleteRows(p) ==
    /\ proc[p].pc = "cd_delete"
    /\ cart' = cart \ UserCart(proc[p].user)
    /\ resp' = Response("cart_delete", proc[p].user, NULL, 200, "")
    /\ proc' = [proc EXCEPT ![p] = IdleProc]
    /\ UNCHANGED <<authVars, menuPrice, nextCartId, orders, nextOrderId,
                   orderItems, histVars>>

\* ------------------------------------------------------------ serializers.py: OrderSerializer.create
\* `not Cart.objects.filter(user=user).exists()`
\* A faulty create() that skips the empty-cart check.
CartIsEmpty_Never(u) == FALSE

CartIsEmpty(u) == UserCart(u) = {}

RECURSIVE SumOf(_, _)
SumOf(S, field) ==
    IF S = {} THEN 0
    ELSE LET c == CHOOSE x \in S : TRUE
         IN  c[field] + SumOf(S \ {c}, field)

\* A faulty total that sums unit prices, ignoring quantities.
CartTotal_UnitPrices(carts) == SumOf(carts, "unit_price")

\* total = sum([cart.price for cart in carts])
CartTotal(carts) == SumOf(carts, "price")

\* One OrderItem per cart row.  `src` is a history field (the cart row copied);
\* a row's identity is (order, src).
OrderItemsFrom(carts, oid) ==
    {[order |-> oid, menuitem |-> c.menuitem, quantity |-> c.quantity,
      unit_price |-> c.unit_price, price |-> c.price, src |-> c.id] : c \in carts}

\* OrdersView.post: get_permissions, then create() up to the exists() query.
OrdersPost(p, u) ==
    /\ proc[p].pc = "idle"
    /\ nextOrderId + Cardinality(InFlight({"oc_read", "oc_order"})) <= MaxOrders
    /\ IF ~IsCustomer(u)
       THEN /\ resp' = Forbidden("orders_post", u, NULL)
            /\ UNCHANGED proc
       ELSE IF CartIsEmpty(u)
       THEN /\ resp' = Response("orders_post", u, NULL, 400, "Cart is empty")
            /\ UNCHANGED proc
       ELSE /\ proc' = [proc EXCEPT ![p] =
                   [IdleProc EXCEPT !.pc = "oc_read", !.user = u,
                        !.snap = [cart |-> UserCart(u), orders |-> orders,
                                  items |-> orderItems]]]
            /\ UNCHANGED resp
    /\ UNCHANGED <<authVars, menuPrice, cart, nextCartId, orders,
                   nextOrderId, orderItems, histVars>>

\* The lazy queryset `carts` is evaluated by the sum and its rows are cached.
OrderReadCarts(p) ==
    /\ proc[p].pc = "oc_read"
    /\ proc' = [proc EXCEPT ![p].pc = "oc_order",
                            ![p].carts = UserCart(proc[p].user),
                            ![p].total = CartTotal(UserCart(proc[p].user))]
    /\ UNCHANGED <<authVars, menuPrice, cart, nextCartId, orders,
                   nextOrderId, orderItems, resp, histVars>>

\* Order.objects.create(user=user, total=total); the row starts with no
\* delivery crew and status 0.
OrderInsert(p) ==
    /\ proc[p].pc = "oc_order"
    /\ orders' = orders \cup
           {[id |-> nextOrderId, user |-> proc[p].user, delivery_crew |-> NULL,
             status |-> 0, total |-> proc[p].total]}
    /\ nextOrderId' = nextOrderId + 1
    /\ proc' = [proc EXCEPT ![p].pc = "oc_items", ![p].order = nextOrderId]
    /\ UNCHANGED <<authVars, menuPrice, cart, nextCartId, orderItems,
                   resp, histVars>>

\* OrderItem.objects.bulk_create(order_items), built from the cached rows
OrderBulkCreate(p) ==
    /\ proc[p].pc = "oc_items"
    /\ orderItems' = orderItems \cup OrderItemsFrom(proc[p].carts, proc[p].order)
    /\ proc' = [proc EXCEPT ![p].pc = "oc_delete"]
    /\ UNCHANGED <<authVars, menuPrice, cart, nextCartId, orders,
                   nextOrderId, resp, histVars>>

\* carts.delete(): delete() runs on a fresh clone of the queryset, so it deletes
\* the rows that match user=user now, not the cached ones.
OrderDeleteCarts(p) ==
    /\ proc[p].pc = "oc_delete"
    /\ cart' = cart \ UserCart(proc[p].user)
    /\ consumed' = consumed \cup {c.id : c \in UserCart(proc[p].user)}
    /\ resp' = Response("orders_post", proc[p].user, NULL, 201, "")
    /\ proc' = [proc EXCEPT ![p] = IdleProc]
    /\ UNCHANGED <<authVars, menuPrice, nextCartId, orders, nextOrderId,
                   orderItems, addedAt>>

\* ------------------------------------------------------------ views.py: SingleMenuItemView
\* PUT / PATCH of a menu item's price: IsManager, then the UPDATE.
MenuItemUpdate(u, m, price) ==
    /\ IF ~IsManager(u)
       THEN /\ resp' = Forbidden("menuitem_update", u, NULL)
            /\ UNCHANGED menuPrice
       ELSE /\ menuPrice' = [menuPrice EXCEPT ![m] = price]
            /\ resp' = Response("menuitem_update", u, NULL, 200, "")
    /\ UNCHANGED <<authVars, cart, nextCartId, orders, nextOrderId,
                   orderItems, proc, histVars>>

\* ------------------------------------------------------------ cart and order requests
InitCart ==
    /\ groupRows = GroupNames
    /\ member = {<<"u1", "customer">>, <<"u2", "customer">>, <<"u2", "manager">>}
    /\ menuPrice = [m \in MenuItems |-> 1]
    /\ cart = {}
    /\ nextCartId = 1
    /\ orders = {}
    /\ nextOrderId = 1
    /\ orderItems = {}
    /\ proc = [p \in Procs |-> IdleProc]
    /\ resp = NoResp
    /\ addedAt = [i \in 1..MaxCartRows |-> 0]
    /\ consumed = {}

Step(p) ==
    \/ \E u \in Users, m \in MenuItems, q \in Quantities : CartPost(p, u, m, q)
    \/ CartValidate(p)
    \/ CartInsert(p)
    \/ \E u \in Users : CartDelete(p, u)
    \/ CartDeleteRows(p)
    \/ \E u \in Users : OrdersPost(p, u)
    \/ OrderReadCarts(p)
    \/ OrderInsert(p)
    \/ OrderBulkCreate(p)
    \/ OrderDeleteCarts(p)

Next == \E p \in Procs : Step(p)

\* Requests of any callers, their statements interleaved.
Spec == InitCart /\ [][Next]_vars

\* The same handlers served by one worker, one request at a time, and managers
\* editing menu prices between them.
NextSeq ==
    \/ Step(1)
    \/ \E u \in Users, m \in MenuItems, price \in Prices :
           proc[1].pc = "idle" /\ MenuItemUpdate(u, m, price)

SpecSeq == InitCart /\ [][NextSeq]_vars

\* ------------------------------------------------------------ views.py: OrdersView (GET)
\* A faulty get_queryset whose customer branch does not filter by user.
OrdersQueryset_CustomerSeesAll(u) ==
    IF IsManager(u) \/ IsCustomer(u) THEN orders
    ELSE IF IsDeliveryCrew(u) THEN {o \in orders : o.delivery_crew # NULL}
    ELSE orders

\* OrdersView.get_queryset; with no branch taken the class attribute
\* queryset = Order.objects.all() stays.
OrdersQueryset(u) ==
    IF IsManager(u) THEN orders
    ELSE IF IsCustomer(u) THEN {o \in orders : o.user = u}
    ELSE IF IsDeliveryCrew(u) THEN {o \in orders : o.delivery_crew # NULL}
    ELSE orders

\* OrdersView.list for an authenticated caller: the ids of the orders returned.
OrdersList(u) == {o.id : o \in OrdersQueryset(u)}

\* ------------------------------------------------------------ views.py: SingleOrderView
\* A faulty get_permissions that lets delivery crew delete.
SingleOrderPermitted_CrewDeletes(method, u) ==
    CASE method = "GET"    -> IsCustomer(u) \/ IsManager(u) \/ IsDeliveryCrew(u)
      [] method = "PATCH"  -> IsManager(u) \/ IsDeliveryCrew(u)
      [] method = "DELETE" -> IsManager(u) \/ IsDeliveryCrew(u)
      [] OTHER             -> TRUE

\* SingleOrderView.get_permissions.  A method with no branch (PUT) keeps the
\* default permission classes, which let every authenticated caller through.
SingleOrderPermitted(method, u) ==
    CASE method = "GET"    -> IsCustomer(u) \/ IsManager(u) \/ IsDeliveryCrew(u)
      [] method = "PATCH"  -> IsManager(u) \/ IsDeliveryCrew(u)
      [] method = "DELETE" -> IsManager(u)
      [] OTHER             -> TRUE

\* SingleOrderView.get_queryset
SingleOrderQueryset(u) ==
    IF IsManager(u) THEN orders
    ELSE IF IsCustomer(u) THEN {o \in orders : o.user = u}
    ELSE IF IsDeliveryCrew(u) THEN orders
    ELSE orders

\* SingleOrderView.list (GET /orders/{pk}/): the response.
SingleOrderGet(u, pk) ==
    IF ~SingleOrderPermitted("GET", u) THEN Forbidden("order_get", u, pk)
    ELSE IF \A o \in SingleOrderQueryset(u) : o.id # pk
    THEN Response("order_get", u, pk, 404, "Order not found")
    ELSE Response("order_get", u, pk, 200, "")

\* UpdateAPIView.update: get_permissions, get_object (404 outside the caller's
\* queryset), then the serializer writes the fields sent; user, total and date
\* are read-only.
OrderUpdate(op, method, u, pk, body) ==
    /\ IF ~SingleOrderPermitted(method, u)
       THEN /\ resp' = Forbidden(op, u, pk)
            /\ UNCHANGED orders
       ELSE IF \A o \in SingleOrderQueryset(u) : o.id # pk
       THEN /\ resp' = Response(op, u, pk, 404, "Not found.")
            /\ UNCHANGED orders
       ELSE /\ orders' =
                 {IF o.id = pk
                  THEN [o EXCEPT
                          !.status = IF "status" \in DOMAIN body THEN body.status ELSE @,
                          !.delivery_crew = IF "delivery_crew" \in DOMAIN body
                                            THEN body.delivery_crew ELSE @]
                  ELSE o : o \in orders}
            /\ resp' = Response(op, u, pk, 200, "")
    /\ UNCHANGED <<authVars, orderItems, cartVars>>

\* PUT /orders/{pk}/
SingleOrderPut(u, pk, body) == OrderUpdate("order_put", "PUT", u, pk, body)

\* PATCH /orders/{pk}/
SingleOrderPatch(u, pk, body) == OrderUpdate("order_patch", "PATCH", u, pk, body)

\* DELETE /orders/{pk}/ (DestroyAPIView.destroy); the order's items go with it.
SingleOrderDelete(u, pk) ==
    /\ IF ~SingleOrderPermitted("DELETE", u)
       THEN /\ resp' = Forbidden("order_delete", u, pk)
            /\ UNCHANGED <<orders, orderItems>>
       ELSE IF \A o \in SingleOrderQueryset(u) : o.id # pk
       THEN /\ resp' = Response("order_delete", u, pk, 404, "Not found.")
            /\ UNCHANGED <<orders, orderItems>>
       ELSE /\ orders' = {o \in orders : o.id # pk}
            /\ orderItems' = {i \in orderItems : i.order # pk}
            /\ resp' = Response("order_delete", u, pk, 204, "")
    /\ UNCHANGED <<authVars, cartVars>>

\* An order as OrderSerializer.create stores it, with one line.
StoredOrder(id, u) ==
    [id |-> id, user |-> u, delivery_crew |-> NULL, status |-> 0, total |-> 1]

StoredItems(os) ==
    UNION {OrderItemsFrom({CartRow(o.id, o.user, "pizza", 1, 1)}, o.id) : o \in os}

\* The users take turns placing the orders on file.
OwnerOf(id) == IF id % 2 = 1 THEN "u1" ELSE "u2"

\* Orders on file, as order creation left them, and every assignment of the
\* users to the three groups.
InitOrders ==
    /\ groupRows = GroupNames
    /\ member \in SUBSET (Users \X GroupNames)
    /\ orders = {StoredOrder(id, OwnerOf(id)) : id \in 1..MaxStored}
    /\ orderItems = StoredItems(orders)
    /\ nextOrderId = MaxStored + 1
    /\ menuPrice = [m \in MenuItems |-> 1]
    /\ cart = {}
    /\ nextCartId = MaxStored + 1
    /\ proc = [p \in Procs |-> IdleProc]
    /\ resp = NoResp
    /\ addedAt = [i \in 1..MaxStored |-> 1]
    /\ consumed = 1..MaxStored

NextOrders ==
    \/ \E u \in Users, pk \in 1..MaxStored, body \in PutBodies : SingleOrderPut(u, pk, body)
    \/ \E u \in Users, pk \in 1..MaxStored, body \in PatchBodies : SingleOrderPatch(u, pk, body)
    \/ \E u \in Users, pk \in 1..MaxStored : SingleOrderDelete(u, pk)

\* The single-order handlers, over every group assignment.
SpecOrders == InitOrders /\ [][NextOrders]_vars

\* ------------------------------------------------------------ views.py: GroupUsersView
\* GroupUsersView.post for ManagerView / DeliveryCrewView (group g).
GroupPost(g, username) ==
    /\ IF username \notin Users
       THEN /\ resp' = Response("group_post", NULL, <<g, username>>, 400,
                                "User does not exist")
            /\ UNCHANGED <<groupRows, member>>
       ELSE /\ groupRows' = groupRows \cup {g}
            /\ member' = member \cup {<<username, g>>}
            /\ resp' = Response("group_post", NULL, <<g, username>>, 201, "added")
    /\ UNCHANGED <<orders, orderItems, cartVars>>

\* GroupUsersView.delete.  User.DoesNotExist is caught; Group.DoesNotExist,
\* raised by Group.objects.get when the group has no row, is not (a server error).
GroupDelete(g, pk) ==
    /\ IF pk \notin Users
       THEN /\ resp' = Response("group_delete", NULL, <<g, pk>>, 404, "User does not exist")
            /\ UNCHANGED member
       ELSE IF g \notin groupRows
       THEN /\ resp' = Response("group_delete", NULL, <<g, pk>>, 500, "Group.DoesNotExist")
            /\ UNCHANGED member
       ELSE IF <<pk, g>> \in member
       THEN /\ member' = member \ {<<pk, g>>}
            /\ resp' = Response("group_delete", NULL, <<g, pk>>, 200, "removed")
       ELSE /\ resp' = Response("group_delete", NULL, <<g, pk>>, 400, "not a member")
            /\ UNCHANGED member
    /\ UNCHANGED <<groupRows, orders, orderItems, cartVars>>

\* A fresh database: users exist, no Group row does.
InitGroups ==
    /\ groupRows = {}
    /\ member = {}
    /\ orders = {}
    /\ orderItems = {}
    /\ nextOrderId = 1
    /\ menuPrice = [m \in MenuItems |-> 1]
    /\ cart = {}
    /\ nextCartId = 1
    /\ proc = [p \in Procs |-> IdleProc]
    /\ resp = NoResp
    /\ addedAt = [i \in 1..MaxCartRows |-> 0]
    /\ consumed = {}

NextGroups ==
    \/ \E g \in RosterGroups, username \in Users \cup {NoUser} : GroupPost(g, username)
    \/ \E g \in RosterGroups, pk \in Users \cup {NoUser} : GroupDelete(g, pk)

\* The roster handlers, from a fresh database.
SpecGroups == InitGroups /\ [][NextGroups]_vars

\* ------------------------------------------------------------ claims: carts and order creation
SameLine(i, c) ==
    /\ i.menuitem = c.menuitem
    /\ i.quantity = c.quantity
    /\ i.unit_price = c.unit_price
    /\ i.price = c.price

\* C1: an order creation that runs with no other request interleaved, for a
\* caller whose cart holds n >= 1 rows, yields exactly one new order, owned by
\* the caller, whose total is the sum of the n rows' prices; exactly n new
\* order-items, all of that order, one per cart row and copying its menuitem,
\* quantity, unit_price and price; and leaves the caller's cart empty.
C1_OrderFromCart ==
    [][\A p \in Procs :
          (proc[p].pc = "oc_delete" /\ proc'[p].pc = "idle"
              /\ Cardinality(proc[p].snap.cart) >= 1) =>
            LET u     == proc[p].user
                rows  == proc[p].snap.cart
                new   == orders' \ proc[p].snap.orders
                items == orderItems' \ proc[p].snap.items
            IN  /\ Cardinality(new) = 1
                /\ \A o \in new :
                      /\ o.user = u
                      /\ o.total = SumOf(rows, "price")
                      /\ \A i \in items : i.order = o.id
                /\ Cardinality(items) = Cardinality(rows)
                /\ \A c \in rows : \E i \in items : i.src = c.id /\ SameLine(i, c)
                /\ {c \in cart' : c.user = u} = {}
                /\ resp' = Response("orders_post", u, NULL, 201, "")]_vars

\* C1 witness: an order made of two cart rows of different prices has been
\* created and its owner's cart is empty.
C1_Witness ==
    /\ resp.op = "orders_post" /\ resp.code = 201
    /\ UserCart(resp.user) = {}
    /\ \E o \in orders :
          /\ o.user = resp.user
          /\ Cardinality({i \in orderItems : i.order = o.id}) = 2
          /\ \E i, j \in orderItems :
                i.order = o.id /\ j.order = o.id /\ i.price # j.price
                /\ o.total = i.price + j.price

\* C2: order creation is atomic under every interleaving with the same user's
\* other requests: every cart row deleted by an order creation is recorded as
\* exactly one order-item, no cart row is copied into two order-items, and
\* once no order creation is in flight no cart row that an order was made from
\* remains in the cart.
C2_AtomicOrderCreation ==
    /\ \A r \in consumed : Cardinality({i \in orderItems : i.src = r}) = 1
    /\ \A r \in 1..MaxCartRows : Cardinality({i \in orderItems : i.src = r}) <= 1
    /\ (InFlight({"oc_read", "oc_order", "oc_items", "oc_delete"}) = {}) =>
          \A i \in orderItems : \A c \in cart : c.id # i.src

\* C3: after every step the cart holds at most one row per (user, menuitem),
\* and a step of a cart add whose pair is already in the cart answers 400
\* "Item is already in the cart." and leaves the cart unchanged.
C3_CartPairUnique ==
    [][/\ \A u \in Users, m \in MenuItems :
             Cardinality({c \in cart' : c.user = u /\ c.menuitem = m}) <= 1
       /\ \A p \in Procs :
             (proc[p].pc \in {"ca_validate", "ca_insert"} /\ proc'[p] # proc[p]
                 /\ InCart(proc[p].user, proc[p].menuitem)) =>
               /\ resp' = Response("cart_post", proc[p].user, NULL, 400,
                                   "Item is already in the cart.")
               /\ cart' = cart]_vars

\* C4: every Cart row and every OrderItem row has price = unit_price * quantity
\* and a unit_price equal to the menu item's price at the moment its cart row
\* was added, whatever the menu item's price is now.
C4_PriceFrozen ==
    /\ \A c \in cart :
          c.price = c.unit_price * c.quantity /\ c.unit_price = addedAt[c.id]
    /\ \A i \in orderItems :
          i.price = i.unit_price * i.quantity /\ i.unit_price = addedAt[i.src]

\* C4 witness: a cart row and an order-item, each of quantity 2, whose menu
\* item's price has changed since the row was added.
C4_Witness ==
    /\ \E c \in cart : c.quantity = 2 /\ menuPrice[c.menuitem] # c.unit_price
    /\ \E i \in orderItems : i.quantity = 2 /\ menuPrice[i.menuitem] # i.unit_price

\* The step is the start of POST /orders/ by u on slot p (it either goes on
\* to read the cart or answers at once).
OrdersPostStep(p, u) ==
    /\ proc[p].pc = "idle"
    /\ \/ proc'[p].pc = "oc_read" /\ proc'[p].user = u
       \/ proc' = proc /\ resp'.op = "orders_post" /\ resp'.user = u

\* C10: an order creation by a customer with zero cart rows answers 400
\* "Cart is empty" and changes no Order, OrderItem or Cart row.
C10_EmptyCartRejected ==
    [][\A p \in Procs, u \in Users :
          (OrdersPostStep(p, u) /\ IsCustomer(u) /\ UserCart(u) = {}) =>
            /\ resp' = Response("orders_post", u, NULL, 400, "Cart is empty")
            /\ UNCHANGED <<orders, orderItems, cart, proc>>]_vars

\* C10 witness: "Cart is empty" was answered to a caller with no cart row while
\* another user's cart holds a row.
C10_Witness ==
    /\ resp = Response("orders_post", resp.user, NULL, 400, "Cart is empty")
    /\ UserCart(resp.user) = {}
    /\ \E c \in cart : c.user # resp.user

\* ------------------------------------------------------------ claims: order access
\* C5 as stated: whatever groups the caller is in, a caller in the customer
\* group is listed only orders whose user is the caller.
C5_CustomerSeesOnlyOwn ==
    \A u \in Users :
        IsCustomer(u) => \A o \in OrdersQueryset(u) : o.user = u

\* C5 amended: a caller in the customer group and not in the manager group,
\* whether or not in the delivery_crew group, is listed exactly the orders
\* whose user is the caller.
C5_NonManagerCustomerSeesOnlyOwn ==
    \A u \in Users :
        (IsCustomer(u) /\ ~IsManager(u)) =>
            OrdersList(u) = {o.id : o \in {x \in orders : x.user = u}}

\* C5 witness: a customer who is also delivery crew is listed an own order
\* while another user's order, with a delivery crew assigned, is on file.
C5_Witness ==
    \E u \in Users :
        /\ IsCustomer(u) /\ ~IsManager(u) /\ IsDeliveryCrew(u)
        /\ OrdersList(u) # {}
        /\ \E o \in orders : o.user # u /\ o.delivery_crew # NULL

UpdateOps == {"order_put", "order_patch"}

\* C6: an order's status and delivery_crew are changed only by a request of a
\* caller in the manager or delivery_crew group, and an update request of any
\* other caller is answered 403 and changes no order.
C6_UpdateRestricted ==
    [][/\ (\E o \in orders : \E n \in orders' :
               n.id = o.id /\ (n.status # o.status \/ n.delivery_crew # o.delivery_crew))
           => (IsManager(resp'.user) \/ IsDeliveryCrew(resp'.user))
       /\ (resp'.op \in UpdateOps /\ resp'.user \in Users
              /\ ~(IsManager(resp'.user) \/ IsDeliveryCrew(resp'.user)))
           => (resp'.code = 403 /\ orders' = orders)]_vars

\* C7: for every caller in at least one of the three groups and every order
\* id, GET /orders/{id}/ answers 200 exactly when the id is among the orders
\* GET /orders/ lists to that caller, and answers 404 "Order not found"
\* otherwise.
C7_RetrieveMatchesList ==
    \A u \in Users, pk \in 1..MaxStored :
        (IsManager(u) \/ IsCustomer(u) \/ IsDeliveryCrew(u)) =>
            IF pk \in OrdersList(u)
            THEN SingleOrderGet(u, pk).code = 200
            ELSE SingleOrderGet(u, pk) = Response("order_get", u, pk, 404, "Order not found")

\* C8: DELETE /orders/{id}/ by a caller outside the manager group is answered
\* 403 and leaves every order and order-item as it was.
C8_DeleteManagerOnly ==
    [][(resp'.op = "order_delete" /\ resp'.user \in Users /\ ~IsManager(resp'.user)) =>
          /\ resp'.code = 403
          /\ orders' = orders
          /\ orderItems' = orderItems]_vars

\* C8 witness: a caller who owns the order, is its delivery crew and is in the
\* customer and delivery_crew groups got 403 for deleting it.
C8_Witness ==
    /\ resp.op = "order_delete" /\ resp.code = 403
    /\ IsCustomer(resp.user) /\ IsDeliveryCrew(resp.user) /\ ~IsManager(resp.user)
    /\ \E o \in orders :
          o.id = resp.arg /\ o.user = resp.user /\ o.delivery_crew = resp.user

\* ------------------------------------------------------------ claims: rosters
\* C9: a roster DELETE naming an existing user who is not a member of the
\* target group is answered 400 (not a member) and changes no membership,
\* also when the group has no row yet.
C9_NonMemberRemovalIs400 ==
    [][(resp'.op = "group_delete"
           /\ resp'.arg[2] \in Users /\ <<resp'.arg[2], resp'.arg[1]>> \notin member) =>
          /\ resp'.code = 400
          /\ resp'.detail = "not a member"
          /\ member' = member]_vars

====
